---- MODULE Spec2Model ----
(***************************************************************************)
(* A model of package estes (src/estes.go): the process-wide configuration *)
(* (estesURL, timeout), the two setters, and RequestPickup as a sequence   *)
(* of steps (marshal, build the client and the request, post, read the     *)
(* reply, classify it), run by several concurrent callers.                 *)
(*                                                                         *)
(* time.Duration is an int64.  TLC's integers are narrower than 64 bits,   *)
(* so an int64 is kept as its eight bytes, least significant first, in two *)
(* 's complement; the product of two of them is taken modulo 2^64, as Go   *)
(* takes it.                                                               *)
(*                                                                         *)
(* A reply body is the sequence of XML tokens the decoder reads from it:   *)
(* start tags, end tags and character data.  encoding/xml, net/http and    *)
(* the network are the environment: what Unmarshal does with a token       *)
(* sequence, what a Client with a given Timeout does with a server that    *)
(* stays silent, what a Client without CheckRedirect does with a server    *)
(* that redirects, and which calls may return an error.                    *)
(***************************************************************************)
EXTENDS Integers, Sequences, FiniteSets, TLC

(***************************************************************************)
(* int64 arithmetic                                                        *)
(***************************************************************************)
RECURSIVE NatBytes(_, _)
NatBytes(n, k) == IF k = 0 THEN <<>> ELSE <<n % 256>> \o NatBytes(n \div 256, k - 1)

\* The int64 whose value is the natural number n (n < 2^31).
Int64(n) == NatBytes(n, 8)

RECURSIVE ColumnSum(_, _, _, _)
ColumnSum(a, b, k, i) ==
    IF i > k THEN 0 ELSE a[i] * b[k + 1 - i] + ColumnSum(a, b, k, i + 1)

RECURSIVE MulFrom(_, _, _, _)
MulFrom(a, b, k, carry) ==
    IF k > 8 THEN <<>>
    ELSE LET s == ColumnSum(a, b, k, 1) + carry
         IN  <<s % 256>> \o MulFrom(a, b, k + 1, s \div 256)

\* a * b on int64: the low 64 bits of the product.
Mul64(a, b) == MulFrom(a, b, 1, 0)

Zero64 == Int64(0)
IsNegative64(d) == d[8] >= 128
IsPositive64(d) == ~IsNegative64(d) /\ d # Zero64

\* time.Second, in nanoseconds.
Second == Int64(1000000000)

(***************************************************************************)
(* XML tokens and documents                                                *)
(***************************************************************************)
StartTok(n) == [k |-> "start", v |-> n]
EndTok(n)   == [k |-> "end", v |-> n]
TextTok(s)  == [k |-> "text", v |-> s]

\* <n>text</n>; an empty text gives <n></n>.
Element(n, text) ==
    <<StartTok(n)>> \o (IF text = "" THEN <<>> ELSE <<TextTok(text)>>) \o <<EndTok(n)>>

\* <n>children</n>
Wrap(n, children) == <<StartTok(n)>> \o children \o <<EndTok(n)>>

(***************************************************************************)
(* xml.Unmarshal                                                           *)
(*                                                                         *)
(* A schema is what the struct tags of the target type say: the name the   *)
(* root element must have (XMLName) and, for every string field, the path  *)
(* of element names that leads to it.                                      *)
(***************************************************************************)
NoField == "-"

\* type SuccessfulPickupRequest, with CreatePickupRequestResponse inside it
SuccessSchema ==
    [root  |-> "Envelope",
     paths |-> [RequestNumber |->
                  <<"Envelope", "Body", "createPickupRequestWSResponse", "requestNumber">>]]

\* type ErrorPickupRequest
ErrorSchema ==
    [root  |-> "error",
     paths |-> [Code        |-> <<"error", "code">>,
                Description |-> <<"error", "description">>,
                BadData     |-> <<"error", "badData">>]]

\* The zero values the targets start with.
ZeroSuccess == [XMLName |-> "", RequestNumber |-> ""]
ZeroError   == [XMLName |-> "", Code |-> "", Description |-> "", BadData |-> ""]

\* The errors of the decoder: nil, io.EOF, a syntax error (with the element
\* names its message quotes), a root element of another name than XMLName.
XmlNil            == [type |-> "nil", names |-> <<>>]
XmlEOF            == [type |-> "EOF", names |-> <<>>]
XmlSyntax(names)  == [type |-> "syntax", names |-> names]
XmlExpected(have) == [type |-> "expected element type", names |-> <<have>>]

\* The field the element at the end of `stack` is decoded into, if any.
FieldAt(schema, stack) ==
    LET fs == {f \in DOMAIN schema.paths : schema.paths[f] = stack}
    IN  IF fs = {} THEN NoField ELSE CHOOSE f \in fs : TRUE

\* The index of the first start tag at or after i; 0 when the input ends
\* first, -j when an end tag comes first, at index j.
RECURSIVE FindStart(_, _)
FindStart(toks, i) ==
    IF i > Len(toks) THEN 0
    ELSE IF toks[i].k = "start" THEN i
    ELSE IF toks[i].k = "end" THEN 0 - i
    ELSE FindStart(toks, i + 1)

\* The decoder inside the root element: `stack` holds the open elements,
\* `data` the character data of the field being read, `val` the target.  A
\* field is assigned when its end tag is read; an element that is no field is
\* skipped; an error ends the walk and leaves the target as it is by then.
RECURSIVE Walk(_, _, _, _, _, _)
Walk(schema, toks, i, stack, data, val) ==
    IF i > Len(toks) THEN [err |-> XmlSyntax(<<>>), val |-> val]
    ELSE
      LET t == toks[i] IN
      CASE t.k = "start" ->
             LET st == Append(stack, t.v)
             IN  Walk(schema, toks, i + 1, st,
                      IF FieldAt(schema, st) # NoField THEN "" ELSE data, val)
        [] t.k = "text" ->
             Walk(schema, toks, i + 1, stack,
                  IF FieldAt(schema, stack) # NoField THEN data \o t.v ELSE data, val)
        [] OTHER ->
             LET top  == stack[Len(stack)]
                 f    == FieldAt(schema, stack)
                 val2 == IF f # NoField THEN [val EXCEPT ![f] = data] ELSE val
                 rest == SubSeq(stack, 1, Len(stack) - 1)
             IN  IF top # t.v THEN [err |-> XmlSyntax(<<top, t.v>>), val |-> val]
                 ELSE IF rest = <<>> THEN [err |-> XmlNil, val |-> val2]
                 ELSE Walk(schema, toks, i + 1, rest, data, val2)

\* xml.Unmarshal(body, &val): the first element of the body is decoded into
\* val, whose XMLName takes the element's name once that is found to be the
\* expected one; what follows the element's end tag is not read.  An end tag
\* before any start tag is the syntax error "unexpected end element </n>".
Unmarshal(schema, body, val) ==
    LET s == FindStart(body, 1) IN
    IF s = 0 THEN [err |-> XmlEOF, val |-> val]
    ELSE IF s < 0 THEN [err |-> XmlSyntax(<<body[0 - s].v>>), val |-> val]
    ELSE IF body[s].v # schema.root THEN [err |-> XmlExpected(body[s].v), val |-> val]
    ELSE Walk(schema, body, s + 1, <<body[s].v>>, "", [val EXCEPT !.XMLName = body[s].v])

(***************************************************************************)
(* The replies of the carrier                                              *)
(***************************************************************************)
\* The reply to a scheduled pickup, with request number n.
SuccessReply(n) ==
    Wrap("Envelope", Wrap("Body",
        Wrap("createPickupRequestWSResponse", Element("requestNumber", n))))

\* The reply to a rejected pickup.
ErrorReply(code, description, badData) ==
    Wrap("error", Element("code", code) \o Element("description", description)
                    \o Element("badData", badData))

\* A success envelope that holds an error element besides the response.
SuccessReplyWithError(n, code, description, badData) ==
    Wrap("Envelope", Wrap("Body",
        Wrap("createPickupRequestWSResponse", Element("requestNumber", n))
        \o ErrorReply(code, description, badData)))

\* A success envelope with no response element in its body.
EnvelopeWithoutResponse == Wrap("Envelope", Wrap("Body", <<>>))

\* A success envelope whose response holds two request numbers.
SuccessReplyTwice(n, m) ==
    Wrap("Envelope", Wrap("Body", Wrap("createPickupRequestWSResponse",
        Element("requestNumber", n) \o Element("requestNumber", m))))

\* The proper prefixes of a document: a reply cut short.
Truncations(doc) == {SubSeq(doc, 1, n) : n \in 0..(Len(doc) - 1)}

\* A document whose last end tag closes another element than the open one.
Misclosed(doc, n) == SubSeq(doc, 1, Len(doc) - 1) \o <<EndTok(n)>>

RequestNumbers == {"N1", "N2"}

WholeReplies ==
    {SuccessReply(n) : n \in RequestNumbers \cup {""}}
    \cup {SuccessReplyWithError(n, "E1", "D1", "B1") : n \in {"N1", ""}}
    \cup {SuccessReplyTwice("N1", "N2"), SuccessReplyTwice("N1", "")}
    \cup {EnvelopeWithoutResponse}
    \cup {ErrorReply("E1", "D1", "B1"), ErrorReply("E2", "D2", "")}
    \cup {Element("html", "Bad Gateway"), <<TextTok("Bad Gateway")>>}

BrokenReplies ==
    Truncations(SuccessReply("N1"))
    \cup Truncations(ErrorReply("E1", "D1", "B1"))
    \cup {Misclosed(SuccessReply("N2"), "Body")}
    \cup {SuccessReply("N1") \o <<TextTok("trailer")>>}
    \cup {<<EndTok("Envelope")>>, <<TextTok("x"), EndTok("Envelope")>>}

\* Every reply body of the model.
Bodies == WholeReplies \cup BrokenReplies

\* The replies the carrier gives when several callers run at once.
FewBodies ==
    {SuccessReply("N1"), ErrorReply("E1", "D1", "B1"),
     SubSeq(SuccessReply("N2"), 1, Len(SuccessReply("N2")) - 1)}

(***************************************************************************)
(* Constants and values of the package                                     *)
(***************************************************************************)
estesTestURL       == "https://apitest.estes-express.com/tools/pickup/request/v1.0"
estesProductionURL == "https://api.estes-express.com/tools/pickup/request/v1.0"
soapenvAttr        == "http://schemas.xmlsoap.org/soap/envelope/"
estAttr            == "http://estespickup.base.ws.provider.soapws.pickupRequest"

\* var timeout = time.Duration(10 * time.Second)
DefaultTimeout == Mul64(Int64(10), Second)

\* Errors: nil, errors.New(msg), errors.Wrap(cause, msg).  An error is its
\* message and, when it wraps one, the error below it; it has no other part.
NoCause           == [type |-> "none", names |-> <<>>]
Nil               == [msg |-> "", cause |-> NoCause]
New(msg)          == [msg |-> msg, cause |-> NoCause]
ErrWrap(cause, msg) == [msg |-> msg, cause |-> cause]

\* The errors of the environment.
MarshalFailure == [type |-> "xml: unsupported type", names |-> <<>>]
RequestFailure == [type |-> "net/http: invalid method or URL", names |-> <<>>]
ConnectFailure == [type |-> "dial: connection refused", names |-> <<>>]
TimeoutFailure == [type |-> "net/http: request canceled (Client.Timeout exceeded)",
                   names |-> <<>>]
ReadFailure    == [type |-> "unexpected EOF reading the body", names |-> <<>>]
RedirectFailure == [type |-> "stopped after 10 redirects", names |-> <<>>]

\* The shipments callers ask a pickup for (type PickupRequestInput; of its
\* fields the shipper's name, the pickup date and the caller's own request
\* number stand for all).
Inputs ==
    {[Shipper |-> [ShipperName |-> "Acme"], PickupDate |-> "2020-01-02",
      RequestNumber |-> ""],
     [Shipper |-> [ShipperName |-> "Bolt"], PickupDate |-> "2020-03-04",
      RequestNumber |-> "PO-7"]}
NoInput == [Shipper |-> [ShipperName |-> ""], PickupDate |-> "", RequestNumber |-> ""]

\* The username and password callers pass.
Credentials == {[estesUsername |-> "user", estesPassword |-> "secret"]}

\* The arguments callers pass to SetTimeout (a time.Duration): 0, 1, 15, -1,
\* time.Second, 10*time.Second and 2^55.
Durations ==
    {Zero64, Int64(1), Int64(15), <<255, 255, 255, 255, 255, 255, 255, 255>>,
     Second, Mul64(Int64(10), Second), <<0, 0, 0, 0, 0, 0, 128, 0>>}

\* type PickupRequest, as RequestPickup fills it.
PickupRequest(in) ==
    [SoapenvAttr |-> soapenvAttr, EstAttr |-> estAttr, PickupRequestInput |-> in]

\* xml.Marshal(pickup): the document the struct tags of PickupRequest describe.
MarshalPickup(pickup) ==
    <<[k |-> "start", v |-> "soapenv:Envelope",
       a |-> <<pickup.SoapenvAttr, pickup.EstAttr>>]>>
    \o Wrap("soapenv:Body", Wrap("est:createPickupRequestWS",
         Wrap("pickupRequestInput",
              Wrap("shipper",
                   Element("shipperName", pickup.PickupRequestInput.Shipper.ShipperName))
              \o Element("pickupDate", pickup.PickupRequestInput.PickupDate)
              \o Element("requestNumber", pickup.PickupRequestInput.RequestNumber))))
    \o <<EndTok("soapenv:Envelope")>>

\* The URL RequestPickup hands to http.NewRequest.
RequestURL(url) == estesProductionURL

\* http.Client: a Timeout above zero sets a deadline for the whole exchange;
\* zero or less sets none.
HasDeadline(client) == IsPositive64(client.Timeout)

\* A SuccessfulPickupRequest, from what the decoder has filled in.
PickupResponse(val) ==
    [XMLName |-> val.XMLName, Response |-> [RequestNumber |-> val.RequestNumber]]

ZeroResponse == PickupResponse(ZeroSuccess)

\* ClassifyReply with the test of the request number turned round.
ClassifyReplyInverted(body) ==
    LET r == Unmarshal(SuccessSchema, body, ZeroSuccess) IN
    IF r.err # XmlNil
    THEN [responseData |-> PickupResponse(r.val),
          err          |-> ErrWrap(r.err, "estes.RequestPickup - could not read response 2"),
          errorData    |-> ZeroError]
    ELSE IF r.val.RequestNumber # ""
    THEN [responseData |-> PickupResponse(r.val),
          err          |-> New("estes.RequestPickup - pickup request failed"),
          errorData    |-> Unmarshal(ErrorSchema, body, ZeroError).val]
    ELSE [responseData |-> PickupResponse(r.val),
          err          |-> Nil,
          errorData    |-> ZeroError]

\* The end of RequestPickup: the reply body is decoded as a
\* SuccessfulPickupRequest, then, if that gave no request number, as an
\* ErrorPickupRequest.  Gives the two named results and the local errorData.
ClassifyReply(body) ==
    LET r == Unmarshal(SuccessSchema, body, ZeroSuccess) IN
    IF r.err # XmlNil
    THEN [responseData |-> PickupResponse(r.val),
          err          |-> ErrWrap(r.err, "estes.RequestPickup - could not read response 2"),
          errorData    |-> ZeroError]
    ELSE IF r.val.RequestNumber = ""
    THEN [responseData |-> PickupResponse(r.val),
          err          |-> New("estes.RequestPickup - pickup request failed"),
          errorData    |-> Unmarshal(ErrorSchema, body, ZeroError).val]
    ELSE [responseData |-> PickupResponse(r.val),
          err          |-> Nil,
          errorData    |-> ZeroError]

(***************************************************************************)
(* State                                                                   *)
(***************************************************************************)
\* The callers (goroutines) that may be inside RequestPickup at once.
NCalls == 2
Calls  == 1..NCalls

VARIABLES
    estesURL,           \* var estesURL
    timeout,            \* var timeout
    lastProductionArg,  \* the argument of the latest SetProductionMode call
    lastTimeoutArg,     \* the argument of the latest SetTimeout call
    pc,                 \* where each caller is in RequestPickup
    p,                  \* each caller's PickupRequestInput (the receiver *p)
    local,              \* the local variables of each invocation
    ret,                \* its named results, responseData and err
    sent,               \* the requests each invocation has put on the network
    stages,             \* the stages each invocation has entered, in order
    env                 \* what the environment has done to each invocation

vars == <<estesURL, timeout, lastProductionArg, lastTimeoutArg,
          pc, p, local, ret, sent, stages, env>>
config  == <<estesURL, timeout>>
history == <<lastProductionArg, lastTimeoutArg>>

NoRequest == [Method |-> "", URL |-> "", Body |-> <<>>, Auth |-> "", ContentType |-> ""]
NoLocal ==
    [pickup     |-> PickupRequest(NoInput),
     xmlBytes   |-> <<>>,
     httpClient |-> [Timeout |-> Zero64],
     req        |-> NoRequest,
     res        |-> <<>>,
     body       |-> <<>>,
     errorData  |-> ZeroError,
     creds      |-> ""]
NoResult == [responseData |-> ZeroResponse, err |-> Nil]
\* Nothing chosen yet: the outcome of xml.Marshal, of http.NewRequest, what
\* the server does with the request, the body it sends, whether the body
\* arrives whole.
NoEnv == [marshal |-> "-", request |-> "-", server |-> "-", reply |-> <<>>, read |-> "-"]

NeverSet == [set |-> FALSE, seconds |-> Zero64]

\* The configurations a run of several callers may start in: the package's
\* initial one, and those SetProductionMode(true) and SetTimeout(0) lead to.
StartConfigs ==
    {[url |-> u, timeout |-> t] :
        u \in {[estesURL |-> estesTestURL, arg |-> "none"],
               [estesURL |-> estesProductionURL, arg |-> "true"]},
        t \in {[timeout |-> DefaultTimeout, arg |-> NeverSet]}
              \cup {[timeout |-> Mul64(d, Second), arg |-> [set |-> TRUE, seconds |-> d]] :
                       d \in {Zero64}}}

InitCalls ==
    /\ pc = [c \in Calls |-> "idle"]
    /\ p = [c \in Calls |-> NoInput]
    /\ local = [c \in Calls |-> NoLocal]
    /\ ret = [c \in Calls |-> NoResult]
    /\ sent = [c \in Calls |-> <<>>]
    /\ stages = [c \in Calls |-> <<>>]
    /\ env = [c \in Calls |-> NoEnv]

Init ==
    /\ estesURL = estesTestURL
    /\ timeout = DefaultTimeout
    /\ lastProductionArg = "none"
    /\ lastTimeoutArg = NeverSet
    /\ InitCalls

InitConcurrent ==
    /\ \E s \in StartConfigs :
          /\ estesURL = s.url.estesURL
          /\ lastProductionArg = s.url.arg
          /\ timeout = s.timeout.timeout
          /\ lastTimeoutArg = s.timeout.arg
    /\ InitCalls

(***************************************************************************)
(* The setters                                                             *)
(***************************************************************************)
SetProductionMode(yes) ==
    /\ estesURL' = IF yes THEN estesProductionURL ELSE estesURL
    /\ lastProductionArg' = IF yes THEN "true" ELSE "false"
    /\ UNCHANGED <<timeout, lastTimeoutArg, pc, p, local, ret, sent, stages, env>>

SetTimeout(seconds) ==
    /\ timeout' = Mul64(seconds, Second)
    /\ lastTimeoutArg' = [set |-> TRUE, seconds |-> seconds]
    /\ UNCHANGED <<estesURL, lastProductionArg, pc, p, local, ret, sent, stages, env>>

(***************************************************************************)
(* RequestPickup                                                           *)
(***************************************************************************)
\* return, with err set
Fail(c, e) ==
    /\ ret' = [ret EXCEPT ![c].err = e]
    /\ pc' = [pc EXCEPT ![c] = "done"]

\* A caller enters RequestPickup: the results are zero, pickup is built
\* from *p.
Call(c, in, creds) ==
    /\ pc[c] = "idle"
    /\ p' = [p EXCEPT ![c] = in]
    /\ local' = [local EXCEPT ![c] =
                   [NoLocal EXCEPT !.pickup = PickupRequest(in), !.creds = creds]]
    /\ ret' = [ret EXCEPT ![c] = NoResult]
    /\ pc' = [pc EXCEPT ![c] = "marshal"]
    /\ UNCHANGED <<config, history, sent, stages, env>>

\* xmlBytes, err := xml.Marshal(pickup).  Whether the encoder returns an
\* error is left to it: the branch is in the code, though no value of this
\* struct type is known to make the encoder fail.
Marshal(c) ==
    /\ pc[c] = "marshal"
    /\ stages' = [stages EXCEPT ![c] = Append(@, "serialize")]
    /\ \E ok \in BOOLEAN :
          /\ env' = [env EXCEPT ![c].marshal = IF ok THEN "ok" ELSE "error"]
          /\ IF ok
             THEN /\ local' = [local EXCEPT ![c].xmlBytes = MarshalPickup(local[c].pickup)]
                  /\ pc' = [pc EXCEPT ![c] = "prepare"]
                  /\ UNCHANGED ret
             ELSE /\ Fail(c, ErrWrap(MarshalFailure,
                                     "estes.RequestPickup - could not marshal xml"))
                  /\ UNCHANGED local
    /\ UNCHANGED <<config, history, p, sent>>

\* httpClient := http.Client{Timeout: timeout}; req, err := http.NewRequest(...);
\* req.SetBasicAuth(...); req.Header.Add(...).  The error of NewRequest is
\* left to it in the same way.
Prepare(c) ==
    /\ pc[c] = "prepare"
    /\ \E ok \in BOOLEAN :
          /\ env' = [env EXCEPT ![c].request = IF ok THEN "ok" ELSE "error"]
          /\ IF ok
             THEN /\ local' = [local EXCEPT
                        ![c].httpClient = [Timeout |-> timeout],
                        ![c].req = [Method      |-> "POST",
                                    URL         |-> RequestURL(estesURL),
                                    Body        |-> local[c].xmlBytes,
                                    Auth        |-> local[c].creds,
                                    ContentType |-> "text/xml"]]
                  /\ pc' = [pc EXCEPT ![c] = "do"]
                  /\ UNCHANGED ret
             ELSE /\ local' = [local EXCEPT ![c].httpClient = [Timeout |-> timeout]]
                  /\ Fail(c, ErrWrap(RequestFailure,
                                     "estes.RequestPickup - could not make build request"))
    /\ UNCHANGED <<config, history, p, sent, stages>>

\* What the server does with a request that reaches it: it refuses the
\* connection, answers with a document, stays silent (for ever, or past any
\* deadline), or answers with a redirect (a 3xx status and a Location).
Servers == {"refuses", "replies", "silent", "redirects"}

\* The same, for a server that sends the client nowhere else.
FinalServers == Servers \ {"redirects"}

\* The statuses of the redirects that http.Client follows.
RedirectStatuses == {301, 302, 303, 307, 308}

\* The Location the server redirects to (on the host of the first request).
RedirectLocation == "https://api.estes-express.com/tools/pickup/request/v1.1/moved"

\* httpClient has no CheckRedirect, so Do applies the default policy of
\* net/http: it gives up once this many requests have gone out.
MaxRedirects == 10

\* The request net/http's Client.do builds when the reply to req is a redirect
\* with this status; ireq is the first request of the exchange.  301, 302
\* and 303 turn a POST into a GET without body; 307 and 308 keep the method
\* and send the body of the first request again (http.NewRequest has set
\* GetBody for the bytes.Reader); the headers of the first request are kept,
\* the Location being on the same host.
RedirectRequest(ireq, req, status) ==
    [Method      |-> IF status \in {301, 302, 303} /\ req.Method \notin {"GET", "HEAD"}
                     THEN "GET" ELSE req.Method,
     URL         |-> RedirectLocation,
     Body        |-> IF status \in {307, 308} THEN ireq.Body ELSE <<>>,
     Auth        |-> ireq.Auth,
     ContentType |-> ireq.ContentType]

\* httpClient.Do(req): the request goes out, to a server that does one of
\* servers with it.
Do(c, servers) ==
    /\ pc[c] = "do"
    /\ sent' = [sent EXCEPT ![c] = Append(@, local[c].req)]
    /\ stages' = [stages EXCEPT ![c] = Append(@, "transmit")]
    /\ \E s \in servers :
          env' = [env EXCEPT ![c].server = s]
    /\ pc' = [pc EXCEPT ![c] = "waiting"]
    /\ UNCHANGED <<config, history, p, local, ret>>

\* Inside the same httpClient.Do: the reply is a redirect.  Do sends the
\* request RedirectRequest builds, to a server that does one of servers with
\* it; after MaxRedirects requests Do returns an error instead.
Redirect(c, servers) ==
    /\ pc[c] = "waiting"
    /\ env[c].server = "redirects"
    /\ IF Len(sent[c]) >= MaxRedirects
       THEN /\ Fail(c, ErrWrap(RedirectFailure,
                               "estes.RequestPickup - could not make post request"))
            /\ UNCHANGED <<sent, env>>
       ELSE /\ \E status \in RedirectStatuses :
                  sent' = [sent EXCEPT ![c] =
                              Append(@, RedirectRequest(sent[c][1],
                                                        sent[c][Len(sent[c])], status))]
            /\ \E s \in servers :
                  env' = [env EXCEPT ![c].server = s]
            /\ UNCHANGED <<pc, ret>>
    /\ UNCHANGED <<config, history, p, local, stages>>

\* Do returns an error: the connection could not be made.
ConnFail(c) ==
    /\ pc[c] = "waiting"
    /\ env[c].server = "refuses"
    /\ Fail(c, ErrWrap(ConnectFailure, "estes.RequestPickup - could not make post request"))
    /\ UNCHANGED <<config, history, p, local, sent, stages, env>>

\* Do returns an error: the client's deadline has passed.
TimerFire(c) ==
    /\ pc[c] = "waiting"
    /\ env[c].server = "silent"
    /\ HasDeadline(local[c].httpClient)
    /\ Fail(c, ErrWrap(TimeoutFailure, "estes.RequestPickup - could not make post request"))
    /\ UNCHANGED <<config, history, p, local, sent, stages, env>>

\* Do returns the response, whose body is b.
Response(c, b) ==
    /\ pc[c] = "waiting"
    /\ env[c].server = "replies"
    /\ env' = [env EXCEPT ![c].reply = b]
    /\ local' = [local EXCEPT ![c].res = b]
    /\ pc' = [pc EXCEPT ![c] = "read"]
    /\ UNCHANGED <<config, history, p, ret, sent, stages>>

\* ResponseOf with res a variable of the package, which holds the response
\* received last by any caller.
ResponseOfShared(c) ==
    LET others == {d \in Calls : d # c /\ local[d].res # <<>>}
    IN  IF others = {} THEN local[c].res ELSE local[CHOOSE d \in others : TRUE].res

\* The response whose body caller c reads.
ResponseOf(c) == local[c].res

\* body, err := ioutil.ReadAll(res.Body)
ReadAll(c) ==
    /\ pc[c] = "read"
    /\ \E ok \in BOOLEAN :
          /\ env' = [env EXCEPT ![c].read = IF ok THEN "ok" ELSE "error"]
          /\ IF ok
             THEN /\ local' = [local EXCEPT ![c].body = ResponseOf(c)]
                  /\ pc' = [pc EXCEPT ![c] = "classify"]
                  /\ UNCHANGED ret
             ELSE /\ Fail(c, ErrWrap(ReadFailure,
                                     "estes.RequestPickup - could not read response 1"))
                  /\ UNCHANGED local
    /\ UNCHANGED <<config, history, p, sent, stages>>

\* err = xml.Unmarshal(body, &responseData), and what follows to the return.
Classify(c) ==
    /\ pc[c] = "classify"
    /\ stages' = [stages EXCEPT ![c] = Append(@, "classify")]
    /\ LET r == ClassifyReply(local[c].body) IN
          /\ ret' = [ret EXCEPT ![c] = [responseData |-> r.responseData, err |-> r.err]]
          /\ local' = [local EXCEPT ![c].errorData = r.errorData]
    /\ pc' = [pc EXCEPT ![c] = "done"]
    /\ UNCHANGED <<config, history, p, sent, env>>

\* The caller has taken the results; the invocation is over.
Return(c) ==
    /\ pc[c] = "done"
    /\ pc' = [pc EXCEPT ![c] = "idle"]
    /\ p' = [p EXCEPT ![c] = NoInput]
    /\ local' = [local EXCEPT ![c] = NoLocal]
    /\ ret' = [ret EXCEPT ![c] = NoResult]
    /\ sent' = [sent EXCEPT ![c] = <<>>]
    /\ stages' = [stages EXCEPT ![c] = <<>>]
    /\ env' = [env EXCEPT ![c] = NoEnv]
    /\ UNCHANGED <<config, history>>

\* A step of RequestPickup that needs nothing from outside to happen, when
\* the server does one of first with the request and one of later with a
\* request it has redirected.
Step(c, first, later) ==
    \/ Marshal(c)
    \/ Prepare(c)
    \/ Do(c, first)
    \/ Redirect(c, later)
    \/ ConnFail(c)
    \/ TimerFire(c)
    \/ ReadAll(c)
    \/ Classify(c)

(***************************************************************************)
(* Specifications                                                          *)
(***************************************************************************)
\* One caller at a time, the setters called at any moment, every reply, a
\* server that redirects an invocation at most once.
Next ==
    \/ \E yes \in BOOLEAN : SetProductionMode(yes)
    \/ \E seconds \in Durations : SetTimeout(seconds)
    \/ \E in \in Inputs, creds \in Credentials : Call(1, in, creds)
    \/ Step(1, Servers, FinalServers)
    \/ \E b \in Bodies : Response(1, b)
    \/ Return(1)

Spec == Init /\ [][Next]_vars

\* The same, with every step of RequestPickup taken if it stays possible:
\* the goroutine is scheduled, the timer of a client with a deadline fires.
LiveSpec == Init /\ [][Next]_vars /\ WF_vars(Step(1, Servers, FinalServers))

\* One caller at a time, the configuration left as the package starts with,
\* a server that redirects as often as it likes.
NextRedirect ==
    \/ \E in \in Inputs, creds \in Credentials : Call(1, in, creds)
    \/ Step(1, Servers, Servers)
    \/ \E b \in FewBodies : Response(1, b)
    \/ Return(1)

RedirectSpec == Init /\ [][NextRedirect]_vars

\* Several callers at once, the configuration left alone, a server that
\* redirects an invocation at most once.
NextConcurrent ==
    \/ \E c \in Calls, in \in Inputs, creds \in Credentials : Call(c, in, creds)
    \/ \E c \in Calls : Step(c, Servers, FinalServers)
    \/ \E c \in Calls, b \in FewBodies : Response(c, b)
    \/ \E c \in Calls : Return(c)

ConcurrentSpec == InitConcurrent /\ [][NextConcurrent]_vars

(***************************************************************************)
(* Properties                                                              *)
(***************************************************************************)
\* Caller c's invocation has returned after reading the reply whole, that
\* is after serialization and transport succeeded.
Classified(c) == pc[c] = "done" /\ env[c].read = "ok"

RejectedMsg  == "estes.RequestPickup - pickup request failed"
MalformedMsg == "estes.RequestPickup - could not read response 2"

\* The strings an error value holds: its message and those of its cause.
ErrorText(e) ==
    {e.msg, e.cause.type} \cup {e.cause.names[i] : i \in DOMAIN e.cause.names}

\* The names and the character data of a body.
BodyText(body) == {body[i].v : i \in DOMAIN body}

\* The replies that hold request number n in a whole success envelope.
SuccessDocs(n) ==
    {SuccessReply(n), SuccessReplyWithError(n, "E1", "D1", "B1"),
     SuccessReply(n) \o <<TextTok("trailer")>>}

\* The rejections the carrier sends.
Rejections ==
    {[Code |-> "E1", Description |-> "D1", BadData |-> "B1"],
     [Code |-> "E2", Description |-> "D2", BadData |-> "B2"]}

\* Replies of neither shape.
NeitherShape == {<<>>, Element("html", "Bad Gateway"), <<TextTok("Bad Gateway")>>}

\* C1: a reply that is a whole success envelope with a non-empty request
\* number n, with or without an error element in it, makes RequestPickup
\* return that number and a nil error.
C1_SuccessClassification ==
    \A c \in Calls : \A n \in RequestNumbers :
        (Classified(c) /\ env[c].reply \in SuccessDocs(n))
            => /\ ret[c].responseData.Response.RequestNumber = n
               /\ ret[c].err = Nil

C1_Witness ==
    \E c \in Calls :
        /\ Classified(c)
        /\ env[c].reply = SuccessReplyWithError("N1", "E1", "D1", "B1")
        /\ ret[c].responseData.Response.RequestNumber = "N1"
        /\ ret[c].err = Nil

\* C2: a reply that is a top-level error element with code, description and
\* badData is decoded as an ErrorPickupRequest and makes RequestPickup fail
\* with the carrier-rejected error, which carries the three values.
C2_ErrorClassification ==
    \A c \in Calls : \A f \in Rejections :
        (Classified(c) /\ env[c].reply = ErrorReply(f.Code, f.Description, f.BadData))
            => /\ local[c].errorData = [XMLName |-> "error", Code |-> f.Code,
                                       Description |-> f.Description,
                                       BadData |-> f.BadData]
               /\ ret[c].err.msg = RejectedMsg
               /\ {f.Code, f.Description, f.BadData} \subseteq ErrorText(ret[c].err)

\* C3: a reply of neither shape makes RequestPickup fail with an error that
\* is not the carrier-rejected one and from which the raw body can be had.
C3_UnparseableFallback ==
    \A c \in Calls :
        (Classified(c) /\ env[c].reply \in NeitherShape)
            => /\ ret[c].err.msg = MalformedMsg
               /\ ret[c].err.msg # RejectedMsg
               /\ BodyText(env[c].reply) \subseteq ErrorText(ret[c].err)

\* C4: the request an invocation builds to post goes to the endpoint
\* configured at that moment (estesURL): the test URL as long as production
\* mode has not been set, the production URL once it has.
C4_EndpointHonoured ==
    [][\A c \in Calls :
          (pc[c] = "prepare" /\ pc'[c] = "do") => local'[c].req.URL = estesURL]_vars

\* C5: the configured endpoint is the production URL exactly when the latest
\* SetProductionMode call passed true, the test URL when there was no call
\* or the latest passed false.
C5_EndpointFlag ==
    /\ lastProductionArg = "true" => estesURL = estesProductionURL
    /\ lastProductionArg \in {"none", "false"} => estesURL = estesTestURL

\* C6: whatever the configured timeout, an invocation whose server stays
\* silent returns, with the timeout failure.
C6_BoundedWait ==
    \A c \in Calls :
        (pc[c] = "waiting" /\ env[c].server = "silent")
            ~> (pc[c] = "done" /\ ret[c].err.cause = TimeoutFailure)

\* C7: the timeout is ten seconds until SetTimeout is called, and after
\* SetTimeout(d) it is d.
C7_TimeoutIsArgument ==
    /\ ~lastTimeoutArg.set => timeout = Mul64(Int64(10), Second)
    /\ lastTimeoutArg.set => timeout = lastTimeoutArg.seconds

\* C8: an invocation enters its stages in the order serialize, transmit,
\* classify, each at most once; an error makes it return at once, so that no
\* request goes out after a failed serialization or a failed request build,
\* the reply is not classified and no second request goes out after a failed
\* transport; at most one request goes out, and exactly one once the
\* invocation has transmitted.
StageOrder == <<"serialize", "transmit", "classify">>
IsPrefix(s, t) == Len(s) <= Len(t) /\ s = SubSeq(t, 1, Len(s))

C8_FailFast ==
    \A c \in Calls :
        /\ IsPrefix(stages[c], StageOrder)
        /\ Len(sent[c]) <= 1
        /\ Len(sent[c]) = 1 <=> Len(stages[c]) >= 2
        /\ ret[c].err # Nil => pc[c] = "done"
        /\ (pc[c] = "done" /\ (env[c].marshal = "error" \/ env[c].request = "error"))
              => stages[c] = <<"serialize">> /\ sent[c] = <<>>
        /\ (pc[c] = "done" /\ (env[c].server \in {"refuses", "silent"}
                               \/ env[c].read = "error"))
              => /\ stages[c] = <<"serialize", "transmit">>
                 /\ Len(sent[c]) = 1
                 /\ ret[c].responseData = ZeroResponse
                 /\ local[c].errorData = ZeroError

\* C9: an invocation that returns an error returns no request number.
C9_NoPartialResult ==
    \A c \in Calls :
        (pc[c] = "done" /\ ret[c].err # Nil)
            => ret[c].responseData.Response.RequestNumber = ""

\* RequestPickup run by one caller alone, from entry to return, when the
\* environment does e.
RequestPickupAlone(e) ==
    IF e.marshal = "error"
    THEN [responseData |-> ZeroResponse,
          err |-> ErrWrap(MarshalFailure, "estes.RequestPickup - could not marshal xml")]
    ELSE IF e.request = "error"
    THEN [responseData |-> ZeroResponse,
          err |-> ErrWrap(RequestFailure, "estes.RequestPickup - could not make build request")]
    ELSE IF e.server = "refuses"
    THEN [responseData |-> ZeroResponse,
          err |-> ErrWrap(ConnectFailure, "estes.RequestPickup - could not make post request")]
    ELSE IF e.server = "silent"
    THEN [responseData |-> ZeroResponse,
          err |-> ErrWrap(TimeoutFailure, "estes.RequestPickup - could not make post request")]
    ELSE IF e.server = "redirects"
    THEN [responseData |-> ZeroResponse,
          err |-> ErrWrap(RedirectFailure, "estes.RequestPickup - could not make post request")]
    ELSE IF e.read = "error"
    THEN [responseData |-> ZeroResponse,
          err |-> ErrWrap(ReadFailure, "estes.RequestPickup - could not read response 1")]
    ELSE [responseData |-> ClassifyReply(e.reply).responseData,
          err |-> ClassifyReply(e.reply).err]

\* C10: with the setters not called, callers inside RequestPickup at the same
\* time do not touch each other: no step writes estesURL, timeout or a
\* caller's input, the request of each carries its own input, and each
\* returns what it would have returned alone, given its own reply.
C10_Isolated ==
    \A c \in Calls :
        /\ sent[c] # <<>> => sent[c][1].Body = MarshalPickup(PickupRequest(p[c]))
        /\ pc[c] = "done" => ret[c] = RequestPickupAlone(env[c])
        /\ pc[c] # "idle" => p[c] \in Inputs /\ local[c].pickup.PickupRequestInput = p[c]

C10_ConfigAlone == [][estesURL' = estesURL /\ timeout' = timeout]_vars

\* C10: the two together.
C10_Isolation == []C10_Isolated /\ C10_ConfigAlone

C10_Witness ==
    /\ pc[1] = "done" /\ env[1].read = "ok"
    /\ pc[2] = "done" /\ env[2].read = "ok"
    /\ p[1] # p[2]
    /\ env[1].reply # env[2].reply
    /\ ret[1] # ret[2]

====
